---- MODULE Spec2Model ----
(***************************************************************************)
(* Model of pkg/k8s/authz.go: the access checks of the k8s package.        *)
(*                                                                         *)
(* Every check is a synchronous call chain that blocks on at most two      *)
(* round trips to the control plane.  A check is modelled as one action    *)
(* per code segment between two blocking calls: the segment that issues    *)
(* the first call, and one segment per call that handles the response,     *)
(* runs the rest of the function up to the next call or the return.        *)
(* Go strings are TLA+ strings (Len, \o and SubSeq apply to them).         *)
(***************************************************************************)
EXTENDS Integers, Sequences, FiniteSets, TLC

VARIABLES
    pc,      \* position of the running check: idle, discovery, authz, listing, done
    check,   \* the entry point that was invoked
    server,  \* what the control plane answers to each of the three calls
    args,    \* the caller's resource descriptor, user and groups (direct calls)
    calls,   \* the control-plane calls issued so far by this invocation
    ret      \* the error value returned by the entry point

vars == <<pc, check, server, args, calls, ret>>

----------------------------------------------------------------------------
(* Bounds of the model *)

MaxResources == 2
MaxInstances == 2

----------------------------------------------------------------------------
(* Constants of the k8s package and of the libraries *)

ServiceProfileAPIVersion == "linkerd.io/v1alpha2"
ServiceProfileKind == "ServiceProfile"
LinkAPIGroup == "multicluster.linkerd.io"
LinkAPIVersion == "v1alpha1"
LinkAPIGroupVersion == LinkAPIGroup \o "/" \o LinkAPIVersion
LinkKind == "Link"
\* discovery.SchemeGroupVersion.String()
EndpointSliceGroupVersion == "discovery.k8s.io/v1beta1"
EndpointSliceKind == "EndpointSlice"

----------------------------------------------------------------------------
(* Error values *)

Nil == [src |-> "nil", msg |-> ""]
NoReturn == [src |-> "none", msg |-> ""]

\* errors.New(msg)
ErrorsNew(msg) == [src |-> "errors.New", msg |-> msg]
\* fmt.Errorf(...) with the formatted text
FmtErrorf(msg) == [src |-> "fmt.Errorf", msg |-> msg]

\* the errors the client can return from a call
TransportErrors ==
    { [src |-> "client", msg |-> "connection refused"],
      [src |-> "client", msg |-> "context deadline exceeded"] }

----------------------------------------------------------------------------
(* Inputs *)

RECURSIVE SeqsUpTo(_, _)
SeqsUpTo(S, n) ==
    IF n = 0 THEN { <<>> }
    ELSE LET shorter == SeqsUpTo(S, n - 1)
         IN shorter \cup { Append(s, x) : s \in { t \in shorter : Len(t) = n - 1 }, x \in S }

Kinds == { ServiceProfileKind, LinkKind, EndpointSliceKind, "Pod" }
GroupVersions ==
    { ServiceProfileAPIVersion, LinkAPIGroupVersion, EndpointSliceGroupVersion, "v1" }
Reasons == { "", "user cannot list resource" }

\* *metav1.APIResourceList, as far as the checks read it
APIResourceLists ==
    { [GroupVersion |-> gv, APIResources |-> rs] :
        gv \in GroupVersions, rs \in SeqsUpTo(Kinds, MaxResources) }
NoResourceList == [GroupVersion |-> "", APIResources |-> <<>>]

\* authV1.SubjectAccessReviewStatus, as far as the checks read it
Statuses == [Allowed : BOOLEAN, Reason : Reasons]
NoStatus == [Allowed |-> FALSE, Reason |-> ""]

\* EndpointSliceList.Items
ItemLists == { [i \in 1..n |-> i] : n \in 0..MaxInstances }

DiscoveryAnswers ==
    { [err |-> e, res |-> NoResourceList] : e \in TransportErrors }
    \cup { [err |-> Nil, res |-> r] : r \in APIResourceLists }
AuthzAnswers ==
    { [err |-> e, status |-> NoStatus] : e \in TransportErrors }
    \cup { [err |-> Nil, status |-> s] : s \in Statuses }
ListAnswers ==
    { [err |-> e, items |-> <<>>] : e \in TransportErrors }
    \cup { [err |-> Nil, items |-> l] : l \in ItemLists }

Servers == [disc : DiscoveryAnswers, authz : AuthzAnswers, list : ListAnswers]
\* cluster states offered to the direct calls, which only reach the authorizer
AuthzServers ==
    { [disc |-> [err |-> Nil, res |-> NoResourceList],
       authz |-> a,
       list |-> [err |-> Nil, items |-> <<>>]] : a \in AuthzAnswers }

Descriptors ==
    [namespace : {"", "linkerd"}, verb : {"list", "get"}, group : {"", "linkerd.io"},
     version : {"", "v1alpha2"}, resource : {"pods", "serviceprofiles"},
     subresource : {"", "status"}, name : {"", "web"}]
Users == { "", "alice" }
UserGroupLists == { <<>>, <<"dev">>, <<"ops", "dev">> }

NoArgs ==
    [desc |-> [namespace |-> "", verb |-> "", group |-> "", version |-> "",
               resource |-> "", subresource |-> "", name |-> ""],
     user |-> "", userGroups |-> <<>>]

----------------------------------------------------------------------------
(* Pure helpers *)



\* schema.GroupKind.String() of k8s.io/apimachinery, which %s applies to gk:
\* the kind alone for an empty group, else kind, dot, group
GroupKindString(group, kind) ==
    IF Len(group) = 0 THEN kind ELSE kind \o "." \o group


\* mutant: a verdict that carries a reason is taken for a denial
evaluateDenyingOnReason(group, resource, status) ==
    IF status.Allowed /\ Len(status.Reason) = 0 THEN Nil
    ELSE FmtErrorf("not authorized to access " \o GroupKindString(group, resource)
                   \o ": " \o status.Reason)

\* mutant: the reason is appended whether or not there is one
evaluateAlwaysAppendingReason(group, resource, status) ==
    IF status.Allowed THEN Nil
    ELSE FmtErrorf("not authorized to access " \o GroupKindString(group, resource)
                   \o ": " \o status.Reason)

evaluateAccessReviewStatus(group, resource, status) ==
    IF status.Allowed THEN Nil
    ELSE LET gk == GroupKindString(group, resource)
         IN IF Len(status.Reason) > 0
            THEN FmtErrorf("not authorized to access " \o gk \o ": " \o status.Reason)
            ELSE FmtErrorf("not authorized to access " \o gk)


\* mutant: an empty namespace is defaulted
SelfResourceAttributesDefaulting(namespace, verb, group, version, resource, name) ==
    [Namespace |-> IF namespace = "" THEN "default" ELSE namespace, Verb |-> verb,
     Group |-> group, Version |-> version, Resource |-> resource, Subresource |-> "",
     Name |-> name]

\* the ResourceAttributes that ResourceAuthz builds; Subresource is not set
SelfResourceAttributes(namespace, verb, group, version, resource, name) ==
    [Namespace |-> namespace, Verb |-> verb, Group |-> group, Version |-> version,
     Resource |-> resource, Subresource |-> "", Name |-> name]

\* the SelfSubjectAccessReview that ResourceAuthz submits
SelfSubjectAccessReview(namespace, verb, group, version, resource, name) ==
    [op |-> "SelfSubjectAccessReviews.Create",
     arg |-> [ResourceAttributes |->
                SelfResourceAttributes(namespace, verb, group, version, resource, name)]]

\* the ResourceAttributes that ResourceAuthzForUser builds
SubjectResourceAttributes(namespace, verb, group, version, resource, subresource, name) ==
    [Namespace |-> namespace, Verb |-> verb, Group |-> group, Version |-> version,
     Resource |-> resource, Subresource |-> subresource, Name |-> name]

\* the SubjectAccessReview that ResourceAuthzForUser submits
SubjectAccessReview(namespace, verb, group, version, resource, subresource, name, user, userGroups) ==
    [op |-> "SubjectAccessReviews.Create",
     arg |-> [User |-> user, Groups |-> userGroups,
              ResourceAttributes |->
                SubjectResourceAttributes(namespace, verb, group, version, resource,
                                          subresource, name)]]

ServerResourcesForGroupVersion(gv) ==
    [op |-> "ServerResourcesForGroupVersion", arg |-> gv]

EndpointSlicesList == [op |-> "EndpointSlices.List", arg |-> ""]

\* the parameters of a ResourceAuthz call, as the descriptor the function works on
Params(namespace, verb, group, version, resource, name) ==
    [desc |-> [namespace |-> namespace, verb |-> verb, group |-> group,
               version |-> version, resource |-> resource, subresource |-> "",
               name |-> name],
     user |-> "", userGroups |-> <<>>]


\* mutant: any entry of a list of the right group-version counts
foundAtAnyEntry(res, gv, kind) ==
    IF res.GroupVersion = gv /\ Len(res.APIResources) > 0 THEN 1 ELSE 0

\* mutant: the list's own group-version is not compared
foundAtAnyGroupVersion(res, gv, kind) ==
    LET hits == { i \in 1..Len(res.APIResources) : res.APIResources[i] = kind }
    IN IF hits # {} THEN CHOOSE i \in hits : \A j \in hits : i <= j ELSE 0

\* the group-version test and the loop over res.APIResources: the index of the
\* entry at which the loop body returns, 0 when the loop falls through
foundAt(res, gv, kind) ==
    LET hits == { i \in 1..Len(res.APIResources) : res.APIResources[i] = kind }
    IN IF res.GroupVersion = gv /\ hits # {}
       THEN CHOOSE i \in hits : \A j \in hits : i <= j
       ELSE 0

IdleServer ==
    [disc |-> [err |-> Nil, res |-> NoResourceList],
     authz |-> [err |-> Nil, status |-> NoStatus],
     list |-> [err |-> Nil, items |-> <<>>]]

----------------------------------------------------------------------------
Init ==
    /\ pc = "idle"
    /\ check = "none"
    /\ server = IdleServer
    /\ args = NoArgs
    /\ calls = <<>>
    /\ ret = NoReturn

----------------------------------------------------------------------------
(* Entry points: the code up to the first blocking call *)

ServiceProfilesAccess ==
    /\ pc = "idle"
    /\ server' \in Servers
    /\ check' = "ServiceProfilesAccess"
    /\ calls' = <<ServerResourcesForGroupVersion(ServiceProfileAPIVersion)>>
    /\ pc' = "discovery"
    /\ UNCHANGED <<args, ret>>

LinkAccess ==
    /\ pc = "idle"
    /\ server' \in Servers
    /\ check' = "LinkAccess"
    /\ calls' = <<ServerResourcesForGroupVersion(LinkAPIGroupVersion)>>
    /\ pc' = "discovery"
    /\ UNCHANGED <<args, ret>>

EndpointSliceAccess ==
    /\ pc = "idle"
    /\ server' \in Servers
    /\ check' = "EndpointSliceAccess"
    /\ calls' = <<ServerResourcesForGroupVersion(EndpointSliceGroupVersion)>>
    /\ pc' = "discovery"
    /\ UNCHANGED <<args, ret>>


\* mutant: the pod check probes discovery like the other checks
ClusterAccessProbing ==
    /\ pc = "idle"
    /\ server' \in Servers
    /\ check' = "ClusterAccess"
    /\ calls' = <<ServerResourcesForGroupVersion("v1")>>
    /\ pc' = "discovery"
    /\ UNCHANGED <<args, ret>>

ClusterAccess ==
    /\ pc = "idle"
    /\ server' \in Servers
    /\ check' = "ClusterAccess"
    /\ args' = Params("", "list", "", "", "pods", "")
    /\ calls' = <<SelfSubjectAccessReview("", "list", "", "", "pods", "")>>
    /\ pc' = "authz"
    /\ UNCHANGED ret

\* a caller hands the six fields of its descriptor that the signature takes
ResourceAuthz ==
    /\ pc = "idle"
    /\ server' \in AuthzServers
    /\ check' = "ResourceAuthz"
    /\ \E d \in Descriptors :
         /\ args' = [desc |-> d, user |-> "", userGroups |-> <<>>]
         /\ calls' = <<SelfSubjectAccessReview(d.namespace, d.verb, d.group, d.version,
                                               d.resource, d.name)>>
    /\ pc' = "authz"
    /\ UNCHANGED ret

ResourceAuthzForUser ==
    /\ pc = "idle"
    /\ server' \in AuthzServers
    /\ check' = "ResourceAuthzForUser"
    /\ \E d \in Descriptors, u \in Users, g \in UserGroupLists :
         /\ args' = [desc |-> d, user |-> u, userGroups |-> g]
         /\ calls' = <<SubjectAccessReview(d.namespace, d.verb, d.group, d.version,
                                           d.resource, d.subresource, d.name, u, g)>>
    /\ pc' = "authz"
    /\ UNCHANGED ret

----------------------------------------------------------------------------
(* The code that runs when a blocking call returns *)

ServiceProfilesAccessDiscovered ==
    /\ pc = "discovery"
    /\ check = "ServiceProfilesAccess"
    /\ IF server.disc.err # Nil
       THEN /\ ret' = server.disc.err
            /\ pc' = "done"
            /\ UNCHANGED <<args, calls>>
       ELSE IF foundAt(server.disc.res, ServiceProfileAPIVersion, ServiceProfileKind) # 0
       THEN /\ args' = Params("", "list", "linkerd.io", "", "serviceprofiles", "")
            /\ calls' = Append(calls,
                    SelfSubjectAccessReview("", "list", "linkerd.io", "", "serviceprofiles", ""))
            /\ pc' = "authz"
            /\ UNCHANGED ret
       ELSE /\ ret' = ErrorsNew("ServiceProfile CRD not found")
            /\ pc' = "done"
            /\ UNCHANGED <<args, calls>>
    /\ UNCHANGED <<check, server>>


\* mutant: the loop body does not return, one query per matching entry
LinkAccessDiscoveredNoReturn ==
    /\ pc = "discovery"
    /\ check = "LinkAccess"
    /\ IF server.disc.err # Nil
       THEN /\ ret' = server.disc.err
            /\ pc' = "done"
            /\ UNCHANGED <<args, calls>>
       ELSE IF foundAt(server.disc.res, LinkAPIGroupVersion, LinkKind) # 0
       THEN /\ args' = Params("", "list", LinkAPIGroup, LinkAPIVersion, "links", "")
            /\ calls' = calls \o
                 [i \in 1..Cardinality({ j \in 1..Len(server.disc.res.APIResources) :
                                           server.disc.res.APIResources[j] = LinkKind }) |->
                    SelfSubjectAccessReview("", "list", LinkAPIGroup, LinkAPIVersion, "links", "")]
            /\ pc' = "authz"
            /\ UNCHANGED ret
       ELSE /\ ret' = ErrorsNew("Link CRD not found")
            /\ pc' = "done"
            /\ UNCHANGED <<args, calls>>
    /\ UNCHANGED <<check, server>>

LinkAccessDiscovered ==
    /\ pc = "discovery"
    /\ check = "LinkAccess"
    /\ IF server.disc.err # Nil
       THEN /\ ret' = server.disc.err
            /\ pc' = "done"
            /\ UNCHANGED <<args, calls>>
       ELSE IF foundAt(server.disc.res, LinkAPIGroupVersion, LinkKind) # 0
       THEN /\ args' = Params("", "list", LinkAPIGroup, LinkAPIVersion, "links", "")
            /\ calls' = Append(calls,
                    SelfSubjectAccessReview("", "list", LinkAPIGroup, LinkAPIVersion, "links", ""))
            /\ pc' = "authz"
            /\ UNCHANGED ret
       ELSE /\ ret' = ErrorsNew("Link CRD not found")
            /\ pc' = "done"
            /\ UNCHANGED <<args, calls>>
    /\ UNCHANGED <<check, server>>


\* mutant: the endpoint-slice check asks the authorizer like the CRD checks
EndpointSliceAccessDiscoveredAuthz ==
    /\ pc = "discovery"
    /\ check = "EndpointSliceAccess"
    /\ IF server.disc.err # Nil
       THEN /\ ret' = server.disc.err
            /\ pc' = "done"
            /\ UNCHANGED <<args, calls>>
       ELSE IF foundAt(server.disc.res, EndpointSliceGroupVersion, EndpointSliceKind) # 0
       THEN /\ args' = Params("", "list", "discovery.k8s.io", "v1beta1", "endpointslices", "")
            /\ calls' = Append(calls, SelfSubjectAccessReview("", "list", "discovery.k8s.io",
                                                             "v1beta1", "endpointslices", ""))
            /\ pc' = "authz"
            /\ UNCHANGED ret
       ELSE /\ ret' = ErrorsNew("EndpointSlice resource not found")
            /\ pc' = "done"
            /\ UNCHANGED <<args, calls>>
    /\ UNCHANGED <<check, server>>

EndpointSliceAccessDiscovered ==
    /\ pc = "discovery"
    /\ check = "EndpointSliceAccess"
    /\ IF server.disc.err # Nil
       THEN /\ ret' = server.disc.err
            /\ pc' = "done"
            /\ UNCHANGED calls
       ELSE IF foundAt(server.disc.res, EndpointSliceGroupVersion, EndpointSliceKind) # 0
       THEN /\ calls' = Append(calls, EndpointSlicesList)
            /\ pc' = "listing"
            /\ UNCHANGED ret
       ELSE /\ ret' = ErrorsNew("EndpointSlice resource not found")
            /\ pc' = "done"
            /\ UNCHANGED calls
    /\ UNCHANGED <<check, server, args>>


\* mutant: the error of Create is wrapped before it is returned
AccessReviewCreatedWrapping ==
    /\ pc = "authz"
    /\ ret' = IF server.authz.err # Nil
              THEN FmtErrorf("access review failed: " \o server.authz.err.msg)
              ELSE evaluateAccessReviewStatus(args.desc.group, args.desc.resource,
                                              server.authz.status)
    /\ pc' = "done"
    /\ UNCHANGED <<check, server, args, calls>>

\* ResourceAuthz and ResourceAuthzForUser after Create has returned
AccessReviewCreated ==
    /\ pc = "authz"
    /\ ret' = IF server.authz.err # Nil
              THEN server.authz.err
              ELSE evaluateAccessReviewStatus(args.desc.group, args.desc.resource,
                                              server.authz.status)
    /\ pc' = "done"
    /\ UNCHANGED <<check, server, args, calls>>


\* mutant: one instance is not enough
checkEndpointSlicesExistOffByOne ==
    /\ pc = "listing"
    /\ ret' = IF server.list.err # Nil
              THEN server.list.err
              ELSE IF Len(server.list.items) > 1
              THEN Nil
              ELSE ErrorsNew("no EndpointSlice resources exist in the cluster")
    /\ pc' = "done"
    /\ UNCHANGED <<check, server, args, calls>>

\* checkEndpointSlicesExist after List has returned
checkEndpointSlicesExist ==
    /\ pc = "listing"
    /\ ret' = IF server.list.err # Nil
              THEN server.list.err
              ELSE IF Len(server.list.items) > 0
              THEN Nil
              ELSE ErrorsNew("no EndpointSlice resources exist in the cluster")
    /\ pc' = "done"
    /\ UNCHANGED <<check, server, args, calls>>

\* the caller has the result; nothing of the invocation is kept
Return ==
    /\ pc = "done"
    /\ pc' = "idle"
    /\ check' = "none"
    /\ server' = IdleServer
    /\ args' = NoArgs
    /\ calls' = <<>>
    /\ ret' = NoReturn

Next ==
    \/ ServiceProfilesAccess
    \/ LinkAccess
    \/ EndpointSliceAccess
    \/ ClusterAccess
    \/ ResourceAuthz
    \/ ResourceAuthzForUser
    \/ ServiceProfilesAccessDiscovered
    \/ LinkAccessDiscovered
    \/ EndpointSliceAccessDiscovered
    \/ AccessReviewCreated
    \/ checkEndpointSlicesExist
    \/ Return

Spec == Init /\ [][Next]_vars

----------------------------------------------------------------------------
(* Vocabulary of the properties *)

CapabilityChecks == { "ServiceProfilesAccess", "LinkAccess", "EndpointSliceAccess" }

ProbedGroupVersion(c) ==
    CASE c = "ServiceProfilesAccess" -> ServiceProfileAPIVersion
      [] c = "LinkAccess" -> LinkAPIGroupVersion
      [] c = "EndpointSliceAccess" -> EndpointSliceGroupVersion
      [] OTHER -> "none"

ExpectedKind(c) ==
    CASE c = "ServiceProfilesAccess" -> ServiceProfileKind
      [] c = "LinkAccess" -> LinkKind
      [] c = "EndpointSliceAccess" -> EndpointSliceKind
      [] OTHER -> "none"

NotFound(c) ==
    CASE c = "ServiceProfilesAccess" -> ErrorsNew("ServiceProfile CRD not found")
      [] c = "LinkAccess" -> ErrorsNew("Link CRD not found")
      [] c = "EndpointSliceAccess" -> ErrorsNew("EndpointSlice resource not found")
      [] OTHER -> NoReturn

NoInstancesExist == ErrorsNew("no EndpointSlice resources exist in the cluster")

HasPrefix(s, p) == Len(s) >= Len(p) /\ SubSeq(s, 1, Len(p)) = p
HasSuffix(s, p) == Len(s) >= Len(p) /\ SubSeq(s, Len(s) - Len(p) + 1, Len(s)) = p
Contains(s, p) == \E i \in 1..(Len(s) - Len(p) + 1) : SubSeq(s, i, i + Len(p) - 1) = p

IsNotAuthorized(e) == HasPrefix(e.msg, "not authorized")
IsDiscovery(c) == c.op = "ServerResourcesForGroupVersion"
IsAccessReview(c) ==
    c.op \in { "SelfSubjectAccessReviews.Create", "SubjectAccessReviews.Create" }
IsListing(c) == c.op = "EndpointSlices.List"

\* the discovery answer lists the capability the running check probes for
KindListed == \E i \in 1..Len(server.disc.res.APIResources) :
                 server.disc.res.APIResources[i] = ExpectedKind(check)
CapabilityPresent ==
    /\ server.disc.res.GroupVersion = ProbedGroupVersion(check)
    /\ KindListed

\* the answer the control plane gives to a call
AnswerErr(c) ==
    IF IsDiscovery(c) THEN server.disc.err
    ELSE IF IsAccessReview(c) THEN server.authz.err
    ELSE server.list.err

\* the access review of this invocation has returned a verdict
VerdictReturned ==
    /\ pc = "done"
    /\ Len(calls) >= 1
    /\ IsAccessReview(calls[Len(calls)])
    /\ server.authz.err = Nil

\* the instance listing of this invocation has returned a list
ListReturned ==
    /\ pc = "done"
    /\ Len(calls) >= 1
    /\ IsListing(calls[Len(calls)])
    /\ server.list.err = Nil

----------------------------------------------------------------------------
(* Properties *)

\* C1: in ServiceProfilesAccess and LinkAccess an access review is submitted only
\* after the discovery call has returned without error a list of the probed
\* group-version holding an entry of the expected kind; when the capability is
\* absent the check ends with its not-found error, never with a not-authorized
\* error, whatever the authorizer would have answered.
C1_DiscoveryBeforeAuthz ==
    check \in { "ServiceProfilesAccess", "LinkAccess" } =>
        /\ \A i \in 1..Len(calls) :
             IsAccessReview(calls[i]) =>
                /\ i = 2
                /\ calls[1] = ServerResourcesForGroupVersion(ProbedGroupVersion(check))
                /\ pc # "discovery"
                /\ server.disc.err = Nil
                /\ CapabilityPresent
        /\ (pc = "done" /\ server.disc.err = Nil /\ ~CapabilityPresent) =>
                /\ ret = NotFound(check)
                /\ ~IsNotAuthorized(ret)

\* the service-profile kind is not discovered, the authorizer would have denied
C1_Witness ==
    /\ check = "ServiceProfilesAccess"
    /\ pc = "done"
    /\ server.disc.err = Nil
    /\ server.disc.res.GroupVersion = ServiceProfileAPIVersion
    /\ ~KindListed
    /\ server.authz.err = Nil
    /\ ~server.authz.status.Allowed
    /\ ret = ErrorsNew("ServiceProfile CRD not found")
    /\ Len(calls) = 1

\* C2: after a discovery answer without error, each of the three capability checks
\* goes on to its second call exactly when the list's GroupVersion equals the probed
\* one and some entry has the expected kind; otherwise it ends with its not-found
\* error, also when the kind is listed under another group-version and when the
\* list of the right group-version is non-empty without the kind.
C2_SecondStepIffPresent ==
    (check \in CapabilityChecks /\ pc # "discovery" /\ server.disc.err = Nil) =>
        /\ Len(calls) = 2 <=> CapabilityPresent
        /\ ~CapabilityPresent => (pc = "done" /\ ret = NotFound(check) /\ Len(calls) = 1)

\* the expected kind is listed, but under a group-version other than the probed one
C2_Witness ==
    /\ check = "EndpointSliceAccess"
    /\ pc = "done"
    /\ server.disc.err = Nil
    /\ server.disc.res.GroupVersion # EndpointSliceGroupVersion
    /\ KindListed
    /\ ret = ErrorsNew("EndpointSlice resource not found")

\* C3: when the access review call succeeds, the check returns nil exactly when the
\* status has Allowed, whatever Reason holds, and every status without Allowed
\* yields an error with a non-empty message.
C3_VerdictNotOverridden ==
    VerdictReturned =>
        /\ ret = Nil <=> server.authz.status.Allowed
        /\ ~server.authz.status.Allowed => (ret.src = "fmt.Errorf" /\ Len(ret.msg) > 0)

\* an allowed verdict that carries a reason
C3_Witness ==
    /\ VerdictReturned
    /\ check = "ResourceAuthzForUser"
    /\ server.authz.status.Allowed
    /\ server.authz.status.Reason # ""
    /\ ret = Nil

\* C4 as stated: the message of a denial names the resource as group, slash, kind.
C4_GroupSlashKind ==
    (VerdictReturned /\ ~server.authz.status.Allowed) =>
        ret.msg = "not authorized to access " \o args.desc.group \o "/" \o args.desc.resource
                  \o (IF server.authz.status.Reason # ""
                      THEN ": " \o server.authz.status.Reason ELSE "")

\* C4 amended: the message of a denial is "not authorized to access " followed by
\* the identifier, which is kind, dot, group, and the kind alone when the group is
\* empty; a non-empty reason follows after ": ", and with an empty reason the
\* message ends with the identifier.
C4_KindDotGroup ==
    (VerdictReturned /\ ~server.authz.status.Allowed) =>
        LET id == IF args.desc.group = "" THEN args.desc.resource
                  ELSE args.desc.resource \o "." \o args.desc.group
            reason == server.authz.status.Reason
        IN /\ HasPrefix(ret.msg, "not authorized to access " \o id)
           /\ reason # "" =>
                /\ ret.msg = "not authorized to access " \o id \o ": " \o reason
                /\ Contains(ret.msg, reason)
           /\ reason = "" =>
                /\ ret.msg = "not authorized to access " \o id
                /\ ~HasSuffix(ret.msg, ":")
                /\ ~HasSuffix(ret.msg, ": ")

\* the pod check denied without a reason: the group is empty
C4_Witness ==
    /\ VerdictReturned
    /\ check = "ClusterAccess"
    /\ ~server.authz.status.Allowed
    /\ server.authz.status.Reason = ""
    /\ ret.msg = "not authorized to access pods"

\* C5: when the listing returns without error, checkEndpointSlicesExist returns nil
\* exactly when the list has an element, and the no-instances error exactly when
\* it is empty.
C5_InstancesExist ==
    ListReturned =>
        /\ ret = Nil <=> Len(server.list.items) >= 1
        /\ ret = NoInstancesExist <=> Len(server.list.items) = 0

\* a listing of exactly one instance
C5_Witness ==
    /\ ListReturned
    /\ Len(server.list.items) = 1
    /\ ret = Nil

\* C6: a call that returns an error is the last call of the invocation, it is
\* issued once, and the check returns that very error value.
C6_TransportErrorPropagated ==
    \A i \in 1..Len(calls) :
        AnswerErr(calls[i]) # Nil =>
            /\ i = Len(calls)
            /\ \A j \in 1..Len(calls) : calls[j].op = calls[i].op => j = i
            /\ pc = "done" => ret = AnswerErr(calls[i])

\* the access review of LinkAccess fails after a successful discovery
C6_Witness ==
    /\ check = "LinkAccess"
    /\ pc = "done"
    /\ Len(calls) = 2
    /\ server.authz.err \in TransportErrors
    /\ ret = server.authz.err

\* C7: EndpointSliceAccess never issues an access review; after discovery has
\* confirmed the kind its only further call is the listing, and the result is nil
\* with an instance listed and the no-instances error with none.
C7_EndpointSliceNoAuthz ==
    check = "EndpointSliceAccess" =>
        /\ \A i \in 1..Len(calls) : ~IsAccessReview(calls[i])
        /\ Len(calls) <= 2
        /\ Len(calls) = 2 =>
              /\ IsDiscovery(calls[1])
              /\ calls[2] = EndpointSlicesList
              /\ server.disc.err = Nil
              /\ CapabilityPresent
        /\ ListReturned =>
              ret = IF Len(server.list.items) >= 1 THEN Nil ELSE NoInstancesExist

\* the kind is confirmed and no instance is listed
C7_Witness ==
    /\ check = "EndpointSliceAccess"
    /\ ListReturned
    /\ Len(server.list.items) = 0
    /\ ret = NoInstancesExist
    /\ Len(calls) = 2

\* C8: ClusterAccess issues exactly one call, a self-subject access review for
\* verb list on resource pods in the empty namespace, never a discovery call, and
\* its result is that call's error or the evaluation of that call's verdict.
C8_ClusterAccessAuthzOnly ==
    check = "ClusterAccess" =>
        /\ Len(calls) = 1
        /\ calls[1].op = "SelfSubjectAccessReviews.Create"
        /\ calls[1].arg.ResourceAttributes.Verb = "list"
        /\ calls[1].arg.ResourceAttributes.Resource = "pods"
        /\ calls[1].arg.ResourceAttributes.Namespace = ""
        /\ pc \in { "authz", "done" }
        /\ pc = "done" =>
              IF server.authz.err # Nil THEN ret = server.authz.err
              ELSE IF server.authz.status.Allowed THEN ret = Nil
              ELSE IsNotAuthorized(ret)

\* pods are allowed on a cluster whose discovery would have failed
C8_Witness ==
    /\ check = "ClusterAccess"
    /\ pc = "done"
    /\ server.disc.err \in TransportErrors
    /\ server.authz.err = Nil
    /\ server.authz.status.Allowed
    /\ ret = Nil

\* C9 as stated: both forms submit a query that carries the seven fields of the
\* descriptor, the subject form with the user and the groups.
C9_AllFieldsCopied ==
    (check \in { "ResourceAuthz", "ResourceAuthzForUser" } /\ pc # "idle") =>
        LET q == calls[1].arg.ResourceAttributes
            d == args.desc
        IN /\ q.Namespace = d.namespace
           /\ q.Verb = d.verb
           /\ q.Group = d.group
           /\ q.Version = d.version
           /\ q.Resource = d.resource
           /\ q.Name = d.name
           /\ q.Subresource = d.subresource
           /\ check = "ResourceAuthzForUser" =>
                (calls[1].arg.User = args.user /\ calls[1].arg.Groups = args.userGroups)

\* C9 amended: ResourceAuthz submits namespace, verb, group, version, resource and
\* name unchanged and always an empty subresource; ResourceAuthzForUser submits
\* these six and the subresource unchanged, with the user and the groups.
C9_FieldsOfTheSignatureCopied ==
    (check \in { "ResourceAuthz", "ResourceAuthzForUser" } /\ pc # "idle") =>
        LET q == calls[1].arg.ResourceAttributes
            d == args.desc
        IN /\ Len(calls) = 1
           /\ q.Namespace = d.namespace
           /\ q.Verb = d.verb
           /\ q.Group = d.group
           /\ q.Version = d.version
           /\ q.Resource = d.resource
           /\ q.Name = d.name
           /\ check = "ResourceAuthz" =>
                (calls[1].op = "SelfSubjectAccessReviews.Create" /\ q.Subresource = "")
           /\ check = "ResourceAuthzForUser" =>
                /\ calls[1].op = "SubjectAccessReviews.Create"
                /\ q.Subresource = d.subresource
                /\ calls[1].arg.User = args.user
                /\ calls[1].arg.Groups = args.userGroups

\* a subject query with a subresource, an empty namespace and two groups
C9_Witness ==
    /\ check = "ResourceAuthzForUser"
    /\ pc = "authz"
    /\ args.desc.subresource = "status"
    /\ args.desc.namespace = ""
    /\ args.userGroups = <<"ops", "dev">>
    /\ calls[1].arg.ResourceAttributes.Subresource = "status"
    /\ calls[1].arg.Groups = <<"ops", "dev">>

\* C10: an invocation issues at most two calls: at most one discovery call, then at
\* most one access review or listing, issued only after discovery has returned
\* without error; a list with several entries of the expected kind still leads to
\* one second call, whose outcome is the result.
C10_AtMostTwoCalls ==
    /\ Len(calls) <= 2
    /\ Cardinality({ i \in 1..Len(calls) : IsDiscovery(calls[i]) }) <= 1
    /\ Len(calls) = 2 =>
          /\ IsDiscovery(calls[1])
          /\ IsAccessReview(calls[2]) \/ IsListing(calls[2])
          /\ server.disc.err = Nil
          /\ pc \in { "authz", "listing", "done" }
    /\ (Len(calls) >= 1 /\ ~IsDiscovery(calls[1])) => Len(calls) = 1
    /\ pc = "discovery" => Len(calls) = 1
    /\ (pc = "done" /\ Len(calls) = 2 /\ AnswerErr(calls[2]) = Nil) =>
          IF IsListing(calls[2])
          THEN ret = IF Len(server.list.items) >= 1 THEN Nil ELSE NoInstancesExist
          ELSE IF server.authz.status.Allowed THEN ret = Nil ELSE IsNotAuthorized(ret)

\* the Link kind is listed twice
C10_Witness ==
    /\ check = "LinkAccess"
    /\ pc = "done"
    /\ server.disc.err = Nil
    /\ server.disc.res = [GroupVersion |-> LinkAPIGroupVersion,
                          APIResources |-> <<LinkKind, LinkKind>>]
    /\ Len(calls) = 2
    /\ IsAccessReview(calls[2])

====
